---- MODULE Spec2Model ----
(***************************************************************************)
(* Model of the KiCad Power Net Analyzer plugin (power_analyzer.py):       *)
(* the PowerNetAnalyzerGui event handlers OnSelectNet, OnSelectSource and  *)
(* OnStartAnalysis, and the run_analysis routine (grid discretization,     *)
(* hit-test classification, netlist synthesis, solver call and result      *)
(* mapping).                                                               *)
(*                                                                         *)
(* Text is modelled as a sequence of one-character strings, so that        *)
(* str.format and str.lower are computed character by character.           *)
(* Python lists are 0-based; the sequences below are 1-based, so element k *)
(* of a Python list is element k+1 of the sequence that models it.         *)
(***************************************************************************)
EXTENDS Integers, Sequences, FiniteSets, TLC

(***************************************************************************)
(* Bounds of the model.                                                    *)
(***************************************************************************)
\* largest number of grid columns (x direction) of a board of the family
MaxCols == 3
\* largest number of grid rows (y direction) of a board of the family
MaxRows == 3
\* largest number of pads on a board of the family
MaxPads == 2

(***************************************************************************)
(* Text helpers.                                                           *)
(***************************************************************************)
Upper == <<"A","B","C","D","E","F","G","H","I","J","K","L","M",
           "N","O","P","Q","R","S","T","U","V","W","X","Y","Z">>
Lower == <<"a","b","c","d","e","f","g","h","i","j","k","l","m",
           "n","o","p","q","r","s","t","u","v","w","x","y","z">>

\* str.lower() of one character
LowerChar(c) ==
    IF \E k \in DOMAIN Upper : Upper[k] = c
    THEN Lower[CHOOSE k \in DOMAIN Upper : Upper[k] = c]
    ELSE c

\* str.lower(): data["op1"][analysis_nodes[i][j].lower()]
StrLower(s) == [k \in DOMAIN s |-> LowerChar(s[k])]

DigitChar == <<"0","1","2","3","4","5","6","7","8","9">>

\* "{}".format(n) of a non-negative integer: its decimal digits
RECURSIVE Dec(_)
Dec(n) == IF n < 10 THEN <<DigitChar[n + 1]>>
          ELSE Dec(n \div 10) \o <<DigitChar[(n % 10) + 1]>>

\* node_name = "n{}x{}".format(i,j)
GridName(i, j) == <<"n">> \o Dec(i) \o <<"x">> \o Dec(j)

\* "{}-Pad{}".format(parent_ref, pad_num)
PadName(parent_ref, pad_num) == parent_ref \o <<"-","P","a","d">> \o pad_num

\* the empty string, which marks a grid point that is off the net
Empty == <<>>

\* the text "0": the initial current draw, and the ground node of the netlist
Zero == <<"0">>

(***************************************************************************)
(* Parameters set by run_analysis.                                         *)
(***************************************************************************)
\* self.analysis_grid_spacing, in nanometers
analysis_grid_spacing == 100000
\* self.analysis_sheet_resistance = 0.0005, as str.format prints it
analysis_sheet_resistance == <<"0",".","0","0","0","5">>
\* self.analysis_source_voltage = 3.3, as str.format prints it
analysis_source_voltage == <<"3",".","3">>

(***************************************************************************)
(* The host board.  Geometry is in nanometers.  A pad or a track is        *)
(* modelled by the axis-aligned rectangle that its HitTest accepts.        *)
(***************************************************************************)
\* the rectangle that covers the grid points (i0..i1) x (j0..j1) of a board
\* whose bounding box has its corner at (rx, ry)
Cover(rx, ry, i0, j0, i1, j1) ==
    [x0 |-> rx + i0 * analysis_grid_spacing - 20000,
     y0 |-> ry + j0 * analysis_grid_spacing - 20000,
     x1 |-> rx + i1 * analysis_grid_spacing + 20000,
     y1 |-> ry + j1 * analysis_grid_spacing + 20000]

\* pad.HitTest(test_point) / track.HitTest(test_point)
HitTest(item, x, y) ==
    /\ item.rect.x0 <= x /\ x <= item.rect.x1
    /\ item.rect.y0 <= y /\ y <= item.rect.y1

\* board.GetNetsByName(): net name -> NETINFO_ITEM; KiCad boards always hold
\* the unconnected net "" with code 0
NetsByName ==
    << [name |-> <<>>, code |-> 0],
       [name |-> <<"V","C","C">>, code |-> 1],
       [name |-> <<"G","N","D">>, code |-> 2] >>

\* pad.GetNet().GetNetname()
GetNetname(code) ==
    (CHOOSE n \in {NetsByName[k] : k \in DOMAIN NetsByName} : n.code = code).name

\* bounding_box.GetX(), bounding_box.GetY() of the boards of the family
BoardRoot == [x |-> 500000, y |-> 200000]

\* the pads a board of the family may carry, in board order
PadCatalogue ==
    LET C(i0, j0, i1, j1) == Cover(BoardRoot.x, BoardRoot.y, i0, j0, i1, j1)
    IN << \* a pad on the interior grid point (1,1)
         [ref |-> <<"U","1">>, num |-> <<"1">>, net |-> 1, rect |-> C(1,1,1,1)],
         \* a pad on the two boundary points (0,0) and (1,0)
         [ref |-> <<"U","1">>, num |-> <<"2">>, net |-> 1, rect |-> C(0,0,1,0)],
         \* a pad on the other copper layer that overlaps the first one
         [ref |-> <<"C","3">>, num |-> <<"1">>, net |-> 1, rect |-> C(1,1,2,1)],
         \* a pad of the other net
         [ref |-> <<"J","1">>, num |-> <<"1">>, net |-> 2, rect |-> C(1,2,1,2)] >>

\* the tracks a board of the family may carry
TrackCatalogue ==
    LET C(i0, j0, i1, j1) == Cover(BoardRoot.x, BoardRoot.y, i0, j0, i1, j1)
    IN { [net |-> 1, rect |-> C(1,0,1,2)],
         [net |-> 1, rect |-> C(0,1,2,1)],
         [net |-> 2, rect |-> C(2,2,2,2)] }

\* the subsequences of the sequence q that have at most n elements
SubSeqs(q, n) ==
    { SelectSeq([k \in DOMAIN q |-> <<k, q[k]>>], LAMBDA e : e[1] \in keep) :
        keep \in { K \in SUBSET DOMAIN q : Cardinality(K) <= n } }

\* the boards of the family: the bounding box of the board edges, the pads
\* in board order and the tracks
Boards ==
    [ root_x : {BoardRoot.x},
      root_y : {BoardRoot.y},
      width  : {0, MaxCols * analysis_grid_spacing},
      height : {MaxRows * analysis_grid_spacing - 50000},
      pads   : { [k \in DOMAIN q |-> q[k][2]] :
                   q \in SubSeqs(PadCatalogue, MaxPads) },
      tracks : SUBSET TrackCatalogue ]

\* board.TracksInNet(netcode)
TracksInNet(b, code) == { t \in b.tracks : t.net = code }

\* the texts a user types into a "Current Draw" cell
DrawTexts == { Zero, <<"0",".","5">> }

(***************************************************************************)
(* State.                                                                  *)
(***************************************************************************)
VARIABLES
    board,              \* self.board
    netnames,           \* self.netnames
    nets,               \* self.nets
    attrs,              \* instance attributes assigned so far, of the four below
    analysis_netname,   \* self.analysis_netname
    analysis_net,       \* self.analysis_net
    analysis_pads,      \* self.analysis_pads
    analysis_padnames,  \* self.analysis_padnames
    pad_config,         \* rows of self.pad_config: [name, draw, source]
    source_row,         \* self.source_row (0-based row, or -1)
    start_enabled,      \* whether self.start_button is enabled
    analysis_nodes,     \* run_analysis: analysis_nodes of the last run
    analysis_netlist,   \* run_analysis: analysis_netlist of the last run
    data,               \* run_analysis: data["op1"] of the last run
    node_voltages,      \* run_analysis: node_voltages of the last run
    outcome,            \* how the last run ended: "none", "shown", "KeyError"
    event,              \* the last event handled, and its column
    ran                 \* run_analysis executions during the last event

vars == << board, netnames, nets, attrs, analysis_netname, analysis_net,
           analysis_pads, analysis_padnames, pad_config, source_row,
           start_enabled, analysis_nodes, analysis_netlist, data,
           node_voltages, outcome, event, ran >>

ui_vars == << attrs, analysis_netname, analysis_net, analysis_pads,
              analysis_padnames, pad_config, source_row, start_enabled >>

run_vars == << analysis_nodes, analysis_netlist, data, node_voltages,
               outcome >>

(***************************************************************************)
(* __init__                                                                *)
(***************************************************************************)
\* for netname, net in board_nets.items(): skip the net named ""
NamedNets == SelectSeq(NetsByName, LAMBDA n : n.name # Empty)

Init ==
    /\ board \in Boards
    /\ netnames = [k \in DOMAIN NamedNets |-> NamedNets[k].name]
    /\ nets = NamedNets
    /\ attrs = {}
    /\ analysis_netname = Empty
    /\ analysis_net = [name |-> Empty, code |-> 0]
    /\ analysis_pads = <<>>
    /\ analysis_padnames = <<>>
    /\ pad_config = <<>>
    /\ source_row = -1
    /\ start_enabled = FALSE
    /\ analysis_nodes = <<>>
    /\ analysis_netlist = <<>>
    /\ data = <<>>
    /\ node_voltages = <<>>
    /\ outcome = "none"
    /\ event = [name |-> "init", col |-> -1]
    /\ ran = 0

(***************************************************************************)
(* OnSelectNet                                                             *)
(***************************************************************************)
\* the pads of the board that belong to the chosen net, in board order
PadsOfNet(pads, netname) ==
    SelectSeq(pads, LAMBDA pad : GetNetname(pad.net) = netname)

\* self.pad_config.AppendItem([self.analysis_padnames[-1], "0", False])
NewRow(padname) == [name |-> padname, draw |-> Zero, source |-> FALSE]

OnSelectNet(sel) ==
    LET pads == board.pads
        chosen == PadsOfNet(pads, netnames[sel + 1])
        padnames == [k \in DOMAIN chosen |-> PadName(chosen[k].ref, chosen[k].num)]
    IN /\ analysis_netname' = netnames[sel + 1]
       /\ analysis_net' = nets[sel + 1]
       /\ source_row' = -1
       /\ start_enabled' = FALSE
       /\ IF Len(pads) > 0
          THEN /\ analysis_padnames' = padnames
               /\ analysis_pads' = chosen
               /\ pad_config' = [k \in DOMAIN padnames |-> NewRow(padnames[k])]
               /\ attrs' = attrs \cup {"analysis_netname", "analysis_net",
                                       "analysis_padnames", "analysis_pads"}
          ELSE /\ UNCHANGED << analysis_padnames, analysis_pads >>
               /\ pad_config' = <<>>
               /\ attrs' = attrs \cup {"analysis_netname", "analysis_net"}
       /\ event' = [name |-> "OnSelectNet", col |-> -1]
       /\ ran' = 0
       /\ UNCHANGED << board, netnames, nets >>
       /\ UNCHANGED run_vars

(***************************************************************************)
(* OnSelectSource                                                          *)
(***************************************************************************)
\* self.pad_config.SetToggleValue(value, row, 2)
SetToggleValue(rows, value, row) ==
    [rows EXCEPT ![row + 1].source = value]

\* the handler leaving the Start button enabled when the source is unchecked
SelectSource_keeps_button(src, rows, row) ==
    IF src = row
    THEN [source_row |-> -1, rows |-> rows, enabled |-> TRUE]
    ELSE IF src # -1
    THEN [source_row |-> row, rows |-> SetToggleValue(rows, FALSE, src),
          enabled |-> TRUE]
    ELSE [source_row |-> row, rows |-> rows, enabled |-> TRUE]

\* the handler leaving the previous source row checked
SelectSource_keeps_toggle(src, rows, row) ==
    IF src = row
    THEN [source_row |-> -1, rows |-> rows, enabled |-> FALSE]
    ELSE [source_row |-> row, rows |-> rows, enabled |-> TRUE]

\* the handler's effect for an event in column 2 of the given row, on the
\* rows as the control left them: the new source_row, rows and button state
SelectSource(src, rows, row) ==
    IF src = row
    THEN [source_row |-> -1, rows |-> rows, enabled |-> FALSE]
    ELSE IF src # -1
    THEN [source_row |-> row, rows |-> SetToggleValue(rows, FALSE, src),
          enabled |-> TRUE]
    ELSE [source_row |-> row, rows |-> rows, enabled |-> TRUE]

\* EVT_DATAVIEW_ITEM_VALUE_CHANGED: the control has stored the new value of
\* the cell (a click flips the toggle of column 2, an edit replaces the text
\* of column 1) and then calls the handler
OnSelectSource(row, col, text) ==
    /\ row \in 0 .. Len(pad_config) - 1
    /\ IF col = 2
       THEN LET flipped == SetToggleValue(pad_config,
                                          ~pad_config[row + 1].source, row)
                after == SelectSource(source_row, flipped, row)
            IN /\ source_row' = after.source_row
               /\ pad_config' = after.rows
               /\ start_enabled' = after.enabled
       ELSE /\ pad_config' = [pad_config EXCEPT ![row + 1].draw = text]
            /\ UNCHANGED << source_row, start_enabled >>
    /\ event' = [name |-> "OnSelectSource", col |-> col]
    /\ ran' = 0
    /\ UNCHANGED << board, netnames, nets, attrs, analysis_netname,
                    analysis_net, analysis_pads, analysis_padnames >>
    /\ UNCHANGED run_vars

(***************************************************************************)
(* run_analysis                                                            *)
(***************************************************************************)
\* range with the stop value included (an off-by-one grid)
RECURSIVE range_inclusive(_, _, _)
range_inclusive(start, stop, step) ==
    IF start <= stop THEN <<start>> \o range_inclusive(start + step, stop, step)
    ELSE <<>>

\* list(range(start, stop, step)) for step > 0
RECURSIVE range(_, _, _)
range(start, stop, step) ==
    IF start < stop THEN <<start>> \o range(start + step, stop, step)
    ELSE <<>>

\* the entry of grid point (i, j) at test_point (x, y): the first pad that
\* hit-tests the point decides the name, then the tracks are tried
NodeEntry(i, j, x, y, pads, rows, tracks) ==
    LET hits == { index \in DOMAIN pads : HitTest(pads[index], x, y) }
    IN IF hits # {}
       THEN LET index == CHOOSE h \in hits : \A g \in hits : h <= g
            IN IF rows[index].draw # Zero \/ rows[index].source
               THEN rows[index].name
               ELSE GridName(i, j)
       ELSE IF \E track \in tracks : HitTest(track, x, y)
            THEN GridName(i, j)
            ELSE Empty

\* analysis_nodes: one list per x of the grid, one entry per y
CreateNodes(b, pads, rows, tracks) ==
    LET xs == range(b.root_x, b.root_x + b.width, analysis_grid_spacing)
        ys == range(b.root_y, b.root_y + b.height, analysis_grid_spacing)
    IN [ i1 \in DOMAIN xs |->
           [ j1 \in DOMAIN ys |->
               NodeEntry(i1 - 1, j1 - 1, xs[i1], ys[j1], pads, rows, tracks) ] ]

\* analysis_nodes[i][j]
At(nodes, i, j) == nodes[i + 1][j + 1]

\* one line of the netlist
Line(kind, name, a, b, value) ==
    [kind |-> kind, name |-> name, a |-> a, b |-> b, value |-> value]

\* the node pairs that grid point (i, j) is connected to: right, bottom,
\* left, top, each if it is on the net
Connections(nodes, i, j) ==
    LET here == At(nodes, i, j)
        around == << At(nodes, i + 1, j), At(nodes, i, j + 1),
                     At(nodes, i - 1, j), At(nodes, i, j - 1) >>
        onnet == SelectSeq(around, LAMBDA m : m # Empty)
    IN IF here = Empty THEN <<>>
       ELSE [k \in DOMAIN onnet |-> <<here, onnet[k]>>]

\* for i in range(1, len(analysis_nodes)-1):
\*     for j in range(1, len(analysis_nodes[0])-1):
RECURSIVE StencilPairs(_, _, _)
StencilPairs(nodes, i, j) ==
    IF i >= Len(nodes) - 1 THEN <<>>
    ELSE IF j >= Len(nodes[1]) - 1 THEN StencilPairs(nodes, i + 1, 1)
    ELSE Connections(nodes, i, j) \o StencilPairs(nodes, i, j + 1)

\* the resistor lines "R{n} {a} {b} {sheet resistance}", n counting from 1
Resistors(nodes) ==
    LET pairs == StencilPairs(nodes, 1, 1)
    IN [n \in DOMAIN pairs |->
          Line("R", <<"R">> \o Dec(n), pairs[n][1], pairs[n][2],
               analysis_sheet_resistance)]

\* the voltage source tied to the first row instead of row source_row
VoltageSource_first(rows, src) ==
    [kind |-> "V", name |-> <<"V","1">>, a |-> rows[1].name, b |-> Zero,
     value |-> analysis_source_voltage]

\* "V1 {} 0 {}".format(self.pad_config.GetTextValue(self.source_row,0), ...)
VoltageSource(rows, src) ==
    Line("V", <<"V","1">>, rows[src + 1].name, Zero, analysis_source_voltage)

\* for i,pad in enumerate(self.analysis_padnames): "I{} {} 0 {}" for the
\* rows whose current draw is not the text "0"
RECURSIVE CurrentSources(_, _, _)
CurrentSources(rows, padnames, i) ==
    IF i >= Len(padnames) THEN <<>>
    ELSE (IF rows[i + 1].draw # Zero
          THEN << Line("I", <<"I">> \o Dec(i), rows[i + 1].name, Zero,
                       rows[i + 1].draw) >>
          ELSE <<>>)
         \o CurrentSources(rows, padnames, i + 1)

TitleLine == Line("title", <<"a","n","a","l","y","s","i","s">>, Empty, Empty, Empty)
OpLine == Line("directive", <<".","o","p">>, Empty, Empty, Empty)
EndLine == Line("directive", <<".","e","n","d">>, Empty, Empty, Empty)

\* analysis_netlist as handed to the solver
Netlist(nodes, rows, padnames, src) ==
    <<TitleLine>> \o Resistors(nodes) \o <<VoltageSource(rows, src)>>
      \o CurrentSources(rows, padnames, 0) \o <<OpLine, EndLine>>

\* the operating-point voltage the solver reports for a node: whatever the
\* external solver computes, kept symbolic
OpVoltage(node) == <<"v","(">> \o node \o <<")">>

\* data,_ = ng.run(analysis_netlist): data["op1"] has one vector per node of
\* the circuit other than ground; the solver folds node names to lower case
NgSpiceRun(netlist) ==
    LET elements == { netlist[k] : k \in DOMAIN netlist }
        circuit == { l \in elements : l.kind \in {"R", "V", "I"} }
        nodenames == ({ StrLower(l.a) : l \in circuit }
                        \cup { StrLower(l.b) : l \in circuit }) \ {Zero}
    IN [ node \in nodenames |-> OpVoltage(node) ]

\* off-net points shown at 0 V instead of the source voltage
Voltage_zero(entry, d) ==
    IF entry # Empty THEN d[StrLower(entry)] ELSE Zero

\* node_voltages[i][j] of an entry of analysis_nodes
Voltage(entry, d) ==
    IF entry # Empty THEN d[StrLower(entry)] ELSE analysis_source_voltage

\* node_voltages
Voltages(nodes, d) ==
    [ i1 \in DOMAIN nodes |->
        [ j1 \in 1 .. Len(nodes[1]) |-> Voltage(nodes[i1][j1], d) ] ]

\* whether data["op1"][...] raises KeyError for some grid point
LookupFails(nodes, d) ==
    \E i1 \in DOMAIN nodes : \E j1 \in 1 .. Len(nodes[1]) :
        /\ nodes[i1][j1] # Empty
        /\ StrLower(nodes[i1][j1]) \notin DOMAIN d

run_analysis ==
    LET analysis_tracks == TracksInNet(board, analysis_net.code)
        nodes == CreateNodes(board, analysis_pads, pad_config, analysis_tracks)
        netlist == Netlist(nodes, pad_config, analysis_padnames, source_row)
        op1 == NgSpiceRun(netlist)
    IN /\ analysis_nodes' = nodes
       /\ analysis_netlist' = netlist
       /\ data' = op1
       /\ IF LookupFails(nodes, op1)
          THEN /\ node_voltages' = <<>>
               /\ outcome' = "KeyError"
          ELSE /\ node_voltages' = Voltages(nodes, op1)
               /\ outcome' = "shown"

(***************************************************************************)
(* OnStartAnalysis: EVT_BUTTON of the Start button, which a disabled       *)
(* button does not emit                                                    *)
(***************************************************************************)
OnStartAnalysis ==
    /\ start_enabled
    /\ IF source_row # -1
       THEN run_analysis /\ ran' = 1
       ELSE UNCHANGED run_vars /\ ran' = 0
    /\ event' = [name |-> "OnStartAnalysis", col |-> -1]
    /\ UNCHANGED << board, netnames, nets >>
    /\ UNCHANGED ui_vars

(***************************************************************************)
(* Specification                                                           *)
(***************************************************************************)
Next ==
    \/ \E sel \in 0 .. Len(netnames) - 1 : OnSelectNet(sel)
    \/ \E row \in 0 .. MaxPads - 1 : \E text \in DrawTexts :
          \E col \in {1, 2} : OnSelectSource(row, col, text)
    \/ OnStartAnalysis

Spec == Init /\ [][Next]_vars

(***************************************************************************)
(* Properties                                                              *)
(***************************************************************************)
\* the state right after a run of run_analysis: the configuration is the
\* one the run has read
AfterRun == event.name = "OnStartAnalysis" /\ ran = 1

\* the grid indices of the last run (0-based, as in the code)
Cols == 0 .. Len(analysis_nodes) - 1
Rows == IF analysis_nodes = <<>> THEN {} ELSE 0 .. Len(analysis_nodes[1]) - 1

\* the test point of grid point (i, j)
PointX(i) == board.root_x + i * analysis_grid_spacing
PointY(j) == board.root_y + j * analysis_grid_spacing

\* the lines of the netlist of a kind
LinesOfKind(kind) ==
    { analysis_netlist[k] : k \in { n \in DOMAIN analysis_netlist :
                                       analysis_netlist[n].kind = kind } }

\* a resistor of the sheet resistance joins the nodes a and b
Joined(a, b) ==
    \E r \in LinesOfKind("R") :
        /\ r.value = analysis_sheet_resistance
        /\ \/ r.a = a /\ r.b = b
           \/ r.a = b /\ r.b = a

\* the pairs of 4-adjacent grid points
Adjacent ==
    { p \in (Cols \X Rows) \X (Cols \X Rows) :
        \/ p[2][1] = p[1][1] + 1 /\ p[2][2] = p[1][2]
        \/ p[2][1] = p[1][1] /\ p[2][2] = p[1][2] + 1 }

\* C1: after a run, every two 4-adjacent grid points that are both on the
\* net, boundary rows and columns included, are joined in the netlist by a
\* resistor of the sheet resistance between their two node names.
C1_Stencil ==
    AfterRun =>
        \A p \in Adjacent :
            LET a == At(analysis_nodes, p[1][1], p[1][2])
                b == At(analysis_nodes, p[2][1], p[2][2])
            IN (a # Empty /\ b # Empty) => Joined(a, b)

\* number of k >= 0 with k * spacing < extent
PointCount(extent) ==
    Cardinality({ k \in 0 .. (extent \div analysis_grid_spacing) + 1 :
                     k * analysis_grid_spacing < extent })

\* a pad or a track of the analysis net hit-tests grid point (i, j)
OnNet(i, j) ==
    \/ \E k \in DOMAIN board.pads :
          /\ GetNetname(board.pads[k].net) = analysis_netname
          /\ HitTest(board.pads[k], PointX(i), PointY(j))
    \/ \E t \in board.tracks :
          /\ GetNetname(t.net) = analysis_netname
          /\ HitTest(t, PointX(i), PointY(j))

\* C2: after a run, the grid is rectangular with one column per k >= 0 with
\* k*spacing < width and one row per k >= 0 with k*spacing < height, and
\* the entry of a grid point is non-empty exactly when a pad or a track of
\* the analysis net hit-tests the point root + index*spacing.
C2_Classification ==
    AfterRun =>
        /\ Len(analysis_nodes) = PointCount(board.width)
        /\ \A i \in Cols : Len(analysis_nodes[i + 1]) = PointCount(board.height)
        /\ \A i \in Cols : \A j \in Rows :
              (At(analysis_nodes, i, j) # Empty) <=> OnNet(i, j)

\* a run on a grid with a boundary, an interior, points on the net by a pad
\* and by a track only, and points off the net
C2_Witness ==
    /\ AfterRun
    /\ Len(analysis_nodes) >= 3
    /\ \E i \in Cols : \E j \in Rows : At(analysis_nodes, i, j) = Empty
    /\ \E i \in Cols : \E j \in Rows :
          /\ At(analysis_nodes, i, j) # Empty
          /\ \A k \in DOMAIN analysis_pads :
                ~HitTest(analysis_pads[k], PointX(i), PointY(j))
    /\ \E i \in Cols : \E j \in Rows : \E k \in DOMAIN analysis_pads :
          HitTest(analysis_pads[k], PointX(i), PointY(j))

BoardRows ==
    LET chosen == PadsOfNet(board.pads, analysis_netname)
    IN [k \in DOMAIN chosen |-> PadName(chosen[k].ref, chosen[k].num)]

\* C4: run_analysis executes only in an OnStartAnalysis event, once in
\* every such event, and then source_row is a row of the pad list of the
\* selected net and that row's Source toggle is the one checked.
C4_RunOnlyOnStart ==
    /\ ran > 0 => event.name = "OnStartAnalysis"
    /\ event.name = "OnStartAnalysis" =>
          /\ ran = 1
          /\ source_row \in 0 .. Len(pad_config) - 1
          /\ \A k \in DOMAIN pad_config :
                pad_config[k].source <=> (k = source_row + 1)
          /\ [k \in DOMAIN pad_config |-> pad_config[k].name] = BoardRows

\* a run on the second net, with the second row of its pad list as source
C4_Witness ==
    /\ AfterRun
    /\ outcome # "none"
    /\ analysis_netname = netnames[2]
    /\ \E i \in Cols : \E j \in Rows : At(analysis_nodes, i, j) # Empty

\* C5: right after OnSelectNet the pad list holds one row per board pad of
\* the selected net, in board order, with draw "0" and Source unchecked;
\* analysis_pads and analysis_padnames exist with the length of the pad
\* list and row k names pad analysis_pads[k]; source_row is -1 and the
\* Start button is disabled.
C5_AfterSelectNet ==
    event.name = "OnSelectNet" =>
        /\ pad_config = [k \in DOMAIN BoardRows |-> NewRow(BoardRows[k])]
        /\ {"analysis_pads", "analysis_padnames"} \subseteq attrs
        /\ Len(analysis_pads) = Len(pad_config)
        /\ Len(analysis_padnames) = Len(pad_config)
        /\ \A k \in DOMAIN pad_config :
              pad_config[k].name = PadName(analysis_pads[k].ref, analysis_pads[k].num)
        /\ source_row = -1
        /\ ~start_enabled

\* row k of the pad list has a nonzero current draw or is the source
Configured(k) == pad_config[k].draw # Zero \/ pad_config[k].source

\* the configured pads that hit-test grid point (i, j)
ConfiguredHits(i, j) ==
    { k \in DOMAIN analysis_pads :
        /\ HitTest(analysis_pads[k], PointX(i), PointY(j))
        /\ Configured(k) }

\* C6: after a run, a grid point inside a pad with a nonzero current draw
\* or inside the source pad has such a pad's name as its node name, and
\* every other on-net point (i, j) has the grid name n{i}x{j}.
C6_NodeNaming ==
    AfterRun =>
        \A i \in Cols : \A j \in Rows :
            LET entry == At(analysis_nodes, i, j)
            IN IF ConfiguredHits(i, j) # {}
               THEN \E k \in ConfiguredHits(i, j) : entry = pad_config[k].name
               ELSE entry # Empty => entry = GridName(i, j)

\* C7: after a run the netlist starts with the title line and ends with
\* .op and .end; its only voltage source is V1, from the node of row
\* source_row to node 0 at the source voltage; its current sources are one
\* I{k}, from the node of row k to node 0 with the row's draw text, for
\* exactly the rows k whose draw text is not "0".
C7_SourceElements ==
    AfterRun =>
        LET n == Len(analysis_netlist)
        IN /\ n >= 4
           /\ analysis_netlist[1] = TitleLine
           /\ analysis_netlist[n - 1] = OpLine
           /\ analysis_netlist[n] = EndLine
           /\ Cardinality({ k \in DOMAIN analysis_netlist :
                               analysis_netlist[k].kind = "V" }) = 1
           /\ LinesOfKind("V") =
                 { Line("V", <<"V","1">>, pad_config[source_row + 1].name,
                        Zero, analysis_source_voltage) }
           /\ Cardinality({ k \in DOMAIN analysis_netlist :
                               analysis_netlist[k].kind = "I" })
                 = Cardinality({ k \in DOMAIN pad_config : pad_config[k].draw # Zero })
           /\ LinesOfKind("I") =
                 { Line("I", <<"I">> \o Dec(k - 1), pad_config[k].name, Zero,
                        pad_config[k].draw) :
                     k \in { r \in DOMAIN pad_config : pad_config[r].draw # Zero } }

\* a run whose source is the second row, with one loaded and one unloaded row
C7_Witness ==
    /\ AfterRun
    /\ source_row = 1
    /\ \E k \in DOMAIN pad_config : pad_config[k].draw # Zero
    /\ \E k \in DOMAIN pad_config : pad_config[k].draw = Zero
    /\ LinesOfKind("R") # {}

\* the rows whose Source toggle is checked (0-based)
Checked == { k - 1 : k \in { r \in DOMAIN pad_config : pad_config[r].source } }

SourceInvariant ==
    /\ start_enabled <=> source_row # -1
    /\ Cardinality(Checked) <= 1
    /\ source_row # -1 => Checked = {source_row}

\* C8: the Start button is enabled exactly when source_row # -1, at most
\* one row is checked, and when source_row # -1 the checked row is row
\* source_row; an OnSelectSource event in a column other than 2 leaves
\* source_row, the toggles and the button unchanged.
C8_SourceSelection ==
    /\ []SourceInvariant
    /\ [][ (event'.name = "OnSelectSource" /\ event'.col # 2) =>
              /\ source_row' = source_row
              /\ start_enabled' = start_enabled
              /\ Checked' = Checked ]_vars

\* the source has moved from one row to another, and a current draw has
\* been edited while a source is selected
C8_Witness ==
    /\ event.name = "OnSelectSource"
    /\ event.col = 1
    /\ source_row = 1
    /\ pad_config[1].draw # Zero
    /\ Len(pad_config) >= 2

\* the node names post-processing looks up, and those of V1 and of the
\* current sources
NamedNodes ==
    ({ At(analysis_nodes, i, j) : <<i, j>> \in Cols \X Rows } \ {Empty})
      \cup { l.a : l \in LinesOfKind("V") \cup LinesOfKind("I") }

\* C9: after a run on a non-empty grid, every node name that is looked up
\* in the solver output or named by V1 or a current source is a terminal of
\* some resistor.
C9_LookupConsistency ==
    (AfterRun /\ analysis_nodes # <<>>) =>
        \A node \in NamedNodes :
            \E r \in LinesOfKind("R") : r.a = node \/ r.b = node

====
